---- MODULE Spec2Model ----
(***************************************************************************)
(* Model of the chat orchestration of private_gpt/ui/ui.py: the history    *)
(* compaction, the three-way mode dispatch, the streaming of snapshots and *)
(* the curation of sources (Source.curate_sources, PrivateGptUi._chat).    *)
(*                                                                         *)
(* Text is a sequence of one-character strings, so that concatenation,     *)
(* str.split and the f-string formatting are computed as Python computes   *)
(* them.  Python's None is the one-element sequence <<"<None>">>, which    *)
(* no text equals (every element of a text is a single character).         *)
(***************************************************************************)
EXTENDS Integers, Sequences, FiniteSets, TLC

VARIABLES
    selected_filename,   \* self._selected_filename: None or a file name
    system_prompt,       \* self._system_prompt
    ingested,            \* what self._ingest_service.list_ingested() returns
    pc,                  \* position of the _chat generator
    mode,                \* argument mode of the call in flight
    message,             \* argument message
    history,             \* argument history: sequence of <<user, assistant>>
    all_messages,        \* local all_messages
    full_response,       \* local full_response of yield_deltas
    snapshots,           \* what the generator has yielded so far, in order
    gen_sources,         \* completion_gen.sources, once yield_deltas read it
    cur_sources,         \* the curated sources (line 103, line 180)
    retrieved,           \* response of retrieve_relevant (Search Files)
    stream_chat_calls,   \* calls made to self._chat_service.stream_chat
    retrieve_calls,      \* calls made to self._chunks_service.retrieve_relevant
    list_ingested_calls, \* number of list_ingested() calls made by the call
    received,            \* the deltas the stream has produced so far, in order
    stream_state,        \* the stream of the call: "none", "open", "exhausted",
                         \* "failed" or "closed"
    error                \* the exception the generator ended with, or "none"

session == <<selected_filename, system_prompt, ingested>>
locals == <<mode, message, history, all_messages, full_response, snapshots,
            gen_sources, cur_sources, retrieved, stream_chat_calls,
            retrieve_calls, list_ingested_calls, received, stream_state,
            error>>
vars == <<selected_filename, system_prompt, ingested, pc, mode, message,
          history, all_messages, full_response, snapshots, gen_sources,
          cur_sources, retrieved, stream_chat_calls, retrieve_calls,
          list_ingested_calls, received, stream_state, error>>

(***************************************************************************)
(* Bounds of the model.                                                    *)
(***************************************************************************)
MaxTurns == 11      \* longest history, in turns (11 turns make 22 messages)
MaxDeltas == 2      \* most deltas one stream produces
MaxChunks == 3      \* most passages a collaborator returns (SpecSources)
MaxFewChunks == 1   \* most passages a collaborator returns (Spec)

(***************************************************************************)
(* Program constants.                                                      *)
(***************************************************************************)
None == <<"<None>">>

SOURCES_SEPARATOR ==
    <<"\n", "\n", " ", "S", "o", "u", "r", "c", "e", "s", ":", " ", "\n">>

MODES == <<"Query Files", "Search Files", "LLM Chat (no context from files)">>

HistoryCap == 20

SearchLimit == 4

SearchPrevNext == 0

(***************************************************************************)
(* Text helpers: Python's str(int), str.join and str.split(sep)[0].        *)
(***************************************************************************)
DigitChars == <<"0", "1", "2", "3", "4", "5", "6", "7", "8", "9">>

RECURSIVE IntToStr(_)
IntToStr(n) ==
    IF n < 10 THEN <<DigitChars[n + 1]>>
    ELSE IntToStr(n \div 10) \o <<DigitChars[(n % 10) + 1]>>

RECURSIVE Join(_, _)
Join(sep, parts) ==
    IF parts = <<>> THEN <<>>
    ELSE IF Len(parts) = 1 THEN parts[1]
    ELSE parts[1] \o sep \o Join(sep, Tail(parts))

OccursAt(s, sep, i) ==
    /\ i + Len(sep) - 1 <= Len(s)
    /\ SubSeq(s, i, i + Len(sep) - 1) = sep

Contains(s, sep) == \E i \in 1..Len(s) : OccursAt(s, sep, i)

\* s.rsplit(sep, 1)[0]: the cut at the last occurrence instead of the first
SplitLast(s, sep) ==
    IF Contains(s, sep)
    THEN LET i == CHOOSE j \in 1..Len(s) :
                      /\ OccursAt(s, sep, j)
                      /\ \A k \in (j + 1)..Len(s) : ~OccursAt(s, sep, k)
         IN  SubSeq(s, 1, i - 1)
    ELSE s

\* the assistant text passed on as stored
SplitNothing(s, sep) == s

SplitFirst(s, sep) ==
    IF Contains(s, sep)
    THEN LET i == CHOOSE j \in 1..Len(s) :
                      /\ OccursAt(s, sep, j)
                      /\ \A k \in 1..(j - 1) : ~OccursAt(s, sep, k)
         IN  SubSeq(s, 1, i - 1)
    ELSE s

IsPrefix(p, s) == Len(p) <= Len(s) /\ SubSeq(s, 1, Len(p)) = p

Range(f) == {f[i] : i \in DOMAIN f}

SeqsUpTo(S, n) == UNION {[1..k -> S] : k \in 0..n}

(***************************************************************************)
(* Source.curate_sources (lines 40-64).  A chunk carries the metadata of   *)
(* its document, an optional mapping with optional keys "file_name" and    *)
(* "page_label", and its text.                                             *)
(***************************************************************************)
NoMetadata == [present |-> FALSE, file_name |-> None, page_label |-> None]

Metadata(f, p) == [present |-> TRUE, file_name |-> f, page_label |-> p]

Chunk(meta, t) == [doc_metadata |-> meta, text |-> t]

Dash == <<"-">>

\* doc_metadata.get(key, "-") if doc_metadata else "-"
MetaGet(meta, key) ==
    IF meta.present /\ meta[key] # None THEN meta[key] ELSE Dash

\* Source(file=file_name, page=page_label, text=chunk.text); the class is
\* frozen, so two Sources are equal (and hash alike) when all three fields are.
Source(chunk) ==
    [file |-> MetaGet(chunk.doc_metadata, "file_name"),
     page |-> MetaGet(chunk.doc_metadata, "page_label"),
     text |-> chunk.text]

\* list(dict.fromkeys(xs).keys()): the distinct elements, first occurrence first
RECURSIVE DictFromKeys(_)
DictFromKeys(xs) ==
    IF xs = <<>> THEN <<>>
    ELSE LET front == DictFromKeys(SubSeq(xs, 1, Len(xs) - 1))
             last == xs[Len(xs)]
         IN  IF last \in Range(front) THEN front ELSE Append(front, last)

RECURSIVE CurateLoop(_, _)
CurateLoop(sources, curated) ==
    IF sources = <<>> THEN curated
    ELSE CurateLoop(Tail(sources),
                    DictFromKeys(Append(curated, Source(Head(sources)))))

\* the loop without its dict.fromkeys step
curate_sources_keep_all(sources) ==
    [i \in 1..Len(sources) |-> Source(sources[i])]

curate_sources(sources) == CurateLoop(sources, <<>>)

(***************************************************************************)
(* build_history (lines 116-134) and the message sequence (lines 136-146). *)
(***************************************************************************)
ChatMessage(c, r) == [content |-> c, role |-> r]

\* the two messages of one interaction; the assistant text loses everything
\* from the first SOURCES_SEPARATOR on
InteractionMessages(interaction) ==
    <<ChatMessage(interaction[1], "user"),
      ChatMessage(SplitFirst(interaction[2], SOURCES_SEPARATOR), "assistant")>>

RECURSIVE Chain(_)
Chain(h) ==
    IF h = <<>> THEN <<>>
    ELSE InteractionMessages(Head(h)) \o Chain(Tail(h))

\* history_messages[:20]
Truncate(history_messages) ==
    SubSeq(history_messages, 1,
           IF Len(history_messages) < HistoryCap
           THEN Len(history_messages) ELSE HistoryCap)

build_history(h) == Truncate(Chain(h))

\* the system message inserted before the cut, so that it counts in the 20
AllMessagesCutAfterInsert(prompt, h, msg) ==
    LET sys == <<ChatMessage(prompt, "system")>>
        base == IF prompt # <<>> THEN Truncate(sys \o Chain(h))
                ELSE build_history(h)
    IN  Append(base, ChatMessage(msg, "user"))

\* all_messages = [*build_history(), new_message], with the system message
\* inserted at index 0 when self._system_prompt is truthy (non-empty)
AllMessages(prompt, h, msg) ==
    LET base == Append(build_history(h), ChatMessage(msg, "user"))
    IN  IF prompt # <<>> THEN <<ChatMessage(prompt, "system")>> \o base
        ELSE base

(***************************************************************************)
(* yield_deltas (lines 90-114).  A delta is a str or a ChatResponse whose  *)
(* field delta is a str or None.                                           *)
(***************************************************************************)
StrDelta(t) == [kind |-> "str", delta |-> t]

ChatResponse(t) == [kind |-> "ChatResponse", delta |-> t]

\* the delta replaces the accumulated text instead of extending it
AppendDeltaOverwrite(full, d) ==
    IF d.kind = "str" THEN d.delta
    ELSE IF d.delta = None THEN <<>> ELSE d.delta

\* the elif branch forgotten: only str deltas are appended
AppendDeltaStrOnly(full, d) ==
    IF d.kind = "str" THEN full \o d.delta ELSE full

\* lines 94-97
AppendDelta(full, d) ==
    IF d.kind = "str" THEN full \o d.delta
    ELSE IF d.kind = "ChatResponse"
         THEN full \o (IF d.delta = None \/ d.delta = <<>> THEN <<>> ELSE d.delta)
         ELSE full

\* f"{source.file}-{source.page}"
UsedKey(source) == source.file \o <<"-">> \o source.page

\* f"{index}. {source.file} (page {source.page}) \n\n"
SourceLine(index, source) ==
    IntToStr(index) \o <<".", " ">> \o source.file
        \o <<" ", "(", "p", "a", "g", "e", " ">> \o source.page
        \o <<")", " ", "\n", "\n">>

\* lines 104-112: the loop over enumerate(cur_sources, start=1)
RECURSIVE SourcesLoop(_, _, _, _)
SourcesLoop(cur, index, used_files, sources_text) ==
    IF index > Len(cur) THEN sources_text
    ELSE LET source == cur[index]
         IN  IF UsedKey(source) \notin used_files
             THEN SourcesLoop(cur, index + 1,
                              used_files \cup {UsedKey(source)},
                              sources_text \o SourceLine(index, source))
             ELSE SourcesLoop(cur, index + 1, used_files, sources_text)

SourcesText(cur) == SourcesLoop(cur, 1, {}, <<"\n", "\n", "\n">>)

\* lines 101-113: what the last yield carries
FinalResponse(full, sources) ==
    IF sources # <<>>
    THEN full \o SOURCES_SEPARATOR \o SourcesText(curate_sources(sources))
    ELSE full

(***************************************************************************)
(* The dispatch (lines 147-187).                                           *)
(***************************************************************************)
NoFilter == [present |-> FALSE, docs_ids |-> <<>>]

ContextFilter(ids) == [present |-> TRUE, docs_ids |-> ids]

IngestedDoc(id, meta) == [doc_id |-> id, doc_metadata |-> meta]

\* ingested_document.doc_metadata["file_name"]: subscripting None is a
\* TypeError, a missing key is a KeyError
FileNameError(doc) ==
    IF ~doc.doc_metadata.present THEN "TypeError"
    ELSE IF doc.doc_metadata.file_name = None THEN "KeyError"
    ELSE "none"

\* lines 153-159: the loop stops at the first document it cannot subscript
RECURSIVE DocsIdsLoop(_, _, _)
DocsIdsLoop(docs, selected, docs_ids) ==
    IF docs = <<>> THEN [error |-> "none", docs_ids |-> docs_ids]
    ELSE LET doc == Head(docs)
         IN  IF FileNameError(doc) # "none"
             THEN [error |-> FileNameError(doc), docs_ids |-> docs_ids]
             ELSE DocsIdsLoop(Tail(docs), selected,
                              IF doc.doc_metadata.file_name = selected
                              THEN Append(docs_ids, doc.doc_id) ELSE docs_ids)

\* lines 151-160: [error, listed, filter]
QueryFilter(selected, docs) ==
    IF selected # None
    THEN LET r == DocsIdsLoop(docs, selected, <<>>)
         IN  [error |-> r.error, listed |-> 1,
              filter |-> ContextFilter(r.docs_ids)]
    ELSE [error |-> "none", listed |-> 0, filter |-> NoFilter]

StreamChatCall(msgs, use_context, context_filter) ==
    [messages |-> msgs, use_context |-> use_context,
     context_filter |-> context_filter]

\* lines 162-166
QueryFilesCall(msgs, context_filter) == StreamChatCall(msgs, TRUE, context_filter)

\* the call of the Query Files case, copied without its filter
LlmChatCallWithContext(msgs) == StreamChatCall(msgs, TRUE, NoFilter)

\* lines 169-172
LlmChatCall(msgs) == StreamChatCall(msgs, FALSE, NoFilter)

\* lines 176-178
RetrieveCall(msg) ==
    [text |-> msg, limit |-> SearchLimit, prev_next_chunks |-> SearchPrevNext]

\* f"{index}. **{source.file} (page {source.page})**\n {source.text}"
SearchEntry(index, source) ==
    IntToStr(index) \o <<".", " ", "*", "*">> \o source.file
        \o <<" ", "(", "p", "a", "g", "e", " ">> \o source.page
        \o <<")", "*", "*", "\n", " ">> \o source.text

\* enumerate without start=1
SearchResponseFromZero(response) ==
    LET sources == curate_sources(response)
    IN  Join(<<"\n", "\n", "\n">>,
             [i \in 1..Len(sources) |-> SearchEntry(i - 1, sources[i])])

\* lines 180-187
SearchResponse(response) ==
    LET sources == curate_sources(response)
    IN  Join(<<"\n", "\n", "\n">>,
             [i \in 1..Len(sources) |-> SearchEntry(i, sources[i])])

\* the tags compared without regard to case
DispatchAnyCase(md) ==
    IF md \in {MODES[1], "query files"} THEN "query"
    ELSE IF md = MODES[3] THEN "llm"
    ELSE IF md = MODES[2] THEN "search"
    ELSE "none"

\* match mode (lines 147-175): the tags are compared exactly
Dispatch(md) ==
    IF md = MODES[1] THEN "query"
    ELSE IF md = MODES[3] THEN "llm"
    ELSE IF md = MODES[2] THEN "search"
    ELSE "none"

\* _list_ingested_files (lines 220-230): the names the file list offers
FILE_NAME_MISSING ==
    <<"[", "F", "I", "L", "E", " ", "N", "A", "M", "E", " ",
      "M", "I", "S", "S", "I", "N", "G", "]">>

ListedFiles(docs) ==
    {IF docs[i].doc_metadata.file_name = None THEN FILE_NAME_MISSING
     ELSE docs[i].doc_metadata.file_name :
        i \in {j \in DOMAIN docs : docs[j].doc_metadata.present}}

(***************************************************************************)
(* The inputs of the model.                                                *)
(***************************************************************************)
FileA == <<"a">>

FileAB == <<"a", "-", "b">>

UserText(i) == <<"q">> \o IntToStr(i)

\* the stored answer of every odd turn ends in a citation block
AssistantText(i) ==
    IF i % 2 = 1
    THEN <<"r">> \o IntToStr(i) \o SOURCES_SEPARATOR \o <<"\n", "1", ".", " ", "a">>
    ELSE <<"r">> \o IntToStr(i)

Hist(n) == [i \in 1..n |-> <<UserText(i), AssistantText(i)>>]

Histories == {Hist(n) : n \in 0..MaxTurns}

ShortHistories == {Hist(0), Hist(1)}

NoHistory == {Hist(0)}

Messages == {<<"m">>, <<"w", "h", "y">>}

OneMessage == {<<"m">>}

Prompts == {<<>>, <<"P">>}

ModeTags == {MODES[1], MODES[2], MODES[3], "query files", "Chat"}

Deltas == {StrDelta(<<"a">>), ChatResponse(<<"b">>), ChatResponse(None)}

Chunks ==
    {Chunk(Metadata(FileA, <<"1">>), <<"x">>),
     Chunk(Metadata(FileA, <<"1">>), <<"y">>),
     Chunk(Metadata(FileAB, <<"1">>), <<"x">>),
     Chunk(Metadata(FileA, <<"b", "-", "1">>), <<"x">>),
     Chunk(NoMetadata, <<"x">>)}

FewChunks ==
    {Chunk(Metadata(FileA, <<"1">>), <<"x">>),
     Chunk(Metadata(FileAB, None), <<"y">>)}

ChunkLists == SeqsUpTo(Chunks, MaxChunks)

FewChunkLists == SeqsUpTo(FewChunks, MaxFewChunks)

IngestConfigs ==
    {<<IngestedDoc("d1", Metadata(FileA, <<"1">>)),
       IngestedDoc("d2", Metadata(FileAB, <<"1">>)),
       IngestedDoc("d3", Metadata(FileA, <<"2">>))>>,
     <<IngestedDoc("d1", Metadata(FileA, <<"1">>)),
       IngestedDoc("d4", NoMetadata),
       IngestedDoc("d3", Metadata(FileA, <<"2">>))>>,
     <<IngestedDoc("d1", Metadata(FileA, <<"1">>)),
       IngestedDoc("d5", Metadata(None, <<"1">>))>>,
     <<>>}

(***************************************************************************)
(* The state machine.                                                      *)
(***************************************************************************)
LocalsCleared ==
    /\ mode = ""
    /\ message = <<>>
    /\ history = <<>>
    /\ all_messages = <<>>
    /\ full_response = <<>>
    /\ snapshots = <<>>
    /\ gen_sources = <<>>
    /\ cur_sources = <<>>
    /\ retrieved = <<>>
    /\ stream_chat_calls = <<>>
    /\ retrieve_calls = <<>>
    /\ list_ingested_calls = 0
    /\ received = <<>>
    /\ stream_state = "none"
    /\ error = "none"

\* __init__ (lines 70-87)
Init ==
    /\ selected_filename = None
    /\ system_prompt \in Prompts
    /\ ingested \in IngestConfigs
    /\ pc = "idle"
    /\ LocalsCleared

\* lines 136-146, run when the generator is first resumed
Enter(md, msg, h) ==
    /\ pc = "idle"
    /\ mode' = md
    /\ message' = msg
    /\ history' = h
    /\ all_messages' = AllMessages(system_prompt, h, msg)
    /\ UNCHANGED session

\* case "Query Files" (lines 148-167), up to the entry of yield_deltas
ChatQueryFiles(ms, hs) ==
    \E md \in ModeTags, msg \in ms, h \in hs :
        /\ Dispatch(md) = "query"
        /\ Enter(md, msg, h)
        /\ LET qf == QueryFilter(selected_filename, ingested)
           IN  /\ list_ingested_calls' = qf.listed
               /\ IF qf.error # "none"
                  THEN /\ pc' = "failed"
                       /\ error' = qf.error
                       /\ stream_chat_calls' = <<>>
                       /\ stream_state' = "none"
                  ELSE /\ stream_chat_calls' =
                              <<QueryFilesCall(all_messages', qf.filter)>>
                       /\ \E raised \in BOOLEAN :
                              /\ pc' = IF raised THEN "failed" ELSE "streaming"
                              /\ error' = IF raised THEN "stream_chat" ELSE "none"
                              /\ stream_state' = IF raised THEN "none" ELSE "open"
        /\ UNCHANGED <<full_response, snapshots, gen_sources, cur_sources,
                       retrieved, retrieve_calls, received>>

\* case "LLM Chat (no context from files)" (lines 168-173)
ChatLlm(ms, hs) ==
    \E md \in ModeTags, msg \in ms, h \in hs :
        /\ Dispatch(md) = "llm"
        /\ Enter(md, msg, h)
        /\ stream_chat_calls' = <<LlmChatCall(all_messages')>>
        /\ \E raised \in BOOLEAN :
               /\ pc' = IF raised THEN "failed" ELSE "streaming"
               /\ error' = IF raised THEN "stream_chat" ELSE "none"
               /\ stream_state' = IF raised THEN "none" ELSE "open"
        /\ UNCHANGED <<full_response, snapshots, gen_sources, cur_sources,
                       retrieved, retrieve_calls, list_ingested_calls,
                       received>>

\* case "Search Files" (lines 175-187): one call, one snapshot
ChatSearchFiles(ms, hs, lists) ==
    \E md \in ModeTags, msg \in ms, h \in hs :
        /\ Dispatch(md) = "search"
        /\ Enter(md, msg, h)
        /\ retrieve_calls' = <<RetrieveCall(msg)>>
        /\ \/ /\ pc' = "failed"
              /\ error' = "retrieve_relevant"
              /\ UNCHANGED <<retrieved, cur_sources, snapshots>>
           \/ \E response \in lists :
                  /\ Len(response) <= SearchLimit
                  /\ retrieved' = response
                  /\ cur_sources' = curate_sources(response)
                  /\ snapshots' = <<SearchResponse(response)>>
                  /\ pc' = "done"
                  /\ error' = "none"
        /\ UNCHANGED <<full_response, gen_sources, stream_chat_calls,
                       list_ingested_calls, received, stream_state>>

\* no case matches: the generator returns without yielding
ChatUnknownMode(ms, hs) ==
    \E md \in ModeTags, msg \in ms, h \in hs :
        /\ Dispatch(md) = "none"
        /\ Enter(md, msg, h)
        /\ pc' = "done"
        /\ UNCHANGED <<full_response, snapshots, gen_sources, cur_sources,
                       retrieved, stream_chat_calls, retrieve_calls,
                       list_ingested_calls, received, stream_state, error>>

\* the loop reading self._system_prompt again at every turn
NextDeltaRereadsSession ==
    /\ pc = "streaming"
    /\ Len(received) < MaxDeltas
    /\ \E delta \in Deltas :
           /\ received' = Append(received, delta)
           /\ full_response' = AppendDelta(full_response, delta)
           /\ snapshots' = Append(snapshots, full_response')
    /\ all_messages' = AllMessages(system_prompt, history, message)
    /\ UNCHANGED <<session, pc, mode, message, history,
                   gen_sources, cur_sources, retrieved, stream_chat_calls,
                   retrieve_calls, list_ingested_calls, stream_state, error>>

\* one turn of the loop of yield_deltas (lines 93-99)
NextDelta ==
    /\ pc = "streaming"
    /\ Len(received) < MaxDeltas
    /\ \E delta \in Deltas :
           /\ received' = Append(received, delta)
           /\ full_response' = AppendDelta(full_response, delta)
           /\ snapshots' = Append(snapshots, full_response')
    /\ UNCHANGED <<session, pc, mode, message, history, all_messages,
                   gen_sources, cur_sources, retrieved, stream_chat_calls,
                   retrieve_calls, list_ingested_calls, stream_state, error>>

\* the failure caught, what was accumulated yielded once more, then re-raised
StreamFailAfterFlush ==
    /\ pc = "streaming"
    /\ pc' = "failed"
    /\ error' = "stream"
    /\ stream_state' = "failed"
    /\ snapshots' = Append(snapshots, full_response)
    /\ UNCHANGED <<session, mode, message, history, all_messages,
                   full_response, gen_sources, cur_sources, retrieved,
                   stream_chat_calls, retrieve_calls, list_ingested_calls,
                   received>>

\* the stream raises instead of producing its next delta
StreamFail ==
    /\ pc = "streaming"
    /\ pc' = "failed"
    /\ error' = "stream"
    /\ stream_state' = "failed"
    /\ UNCHANGED <<session, mode, message, history, all_messages,
                   full_response, snapshots, gen_sources, cur_sources,
                   retrieved, stream_chat_calls, retrieve_calls,
                   list_ingested_calls, received>>

\* the stream is exhausted: lines 101-114, then the generator returns
StreamEnd(lists) ==
    /\ pc = "streaming"
    /\ \E sources \in lists :
           /\ gen_sources' = sources
           /\ cur_sources' =
                  IF sources # <<>> THEN curate_sources(sources) ELSE <<>>
           /\ full_response' = FinalResponse(full_response, sources)
           /\ snapshots' = Append(snapshots, full_response')
    /\ pc' = "done"
    /\ stream_state' = "exhausted"
    /\ UNCHANGED <<session, mode, message, history, all_messages, retrieved,
                   stream_chat_calls, retrieve_calls, list_ingested_calls,
                   received, error>>

\* the caller stops pulling while the generator is suspended at the yield
\* of line 98 and closes or drops it: GeneratorExit leaves yield_deltas and
\* _chat, which have no handler and never call stream.close().  Whether the
\* stream is closed then depends on the runtime reclaiming it (no other
\* reference, reference counting): either outcome can be produced.
CallerStops ==
    /\ pc = "streaming"
    /\ Len(snapshots) >= 1
    /\ pc' = "closed"
    /\ stream_state' \in {"open", "closed"}
    /\ UNCHANGED <<session, mode, message, history, all_messages,
                   full_response, snapshots, gen_sources, cur_sources,
                   retrieved, stream_chat_calls, retrieve_calls,
                   list_ingested_calls, received, error>>

\* the caller drops the finished generator; its locals are gone
Discard ==
    /\ pc \in {"done", "failed", "closed"}
    /\ pc' = "idle"
    /\ mode' = ""
    /\ message' = <<>>
    /\ history' = <<>>
    /\ all_messages' = <<>>
    /\ full_response' = <<>>
    /\ snapshots' = <<>>
    /\ gen_sources' = <<>>
    /\ cur_sources' = <<>>
    /\ retrieved' = <<>>
    /\ stream_chat_calls' = <<>>
    /\ retrieve_calls' = <<>>
    /\ list_ingested_calls' = 0
    /\ received' = <<>>
    /\ stream_state' = "none"
    /\ error' = "none"
    /\ UNCHANGED session

\* _selected_a_file (lines 292-298)
SelectedAFile ==
    /\ pc = "idle"
    /\ \E value \in ListedFiles(ingested) : selected_filename' = value
    /\ UNCHANGED <<system_prompt, ingested, pc, locals>>

\* _deselect_selected_file (lines 284-290)
DeselectSelectedFile ==
    /\ pc = "idle"
    /\ selected_filename' = None
    /\ UNCHANGED <<system_prompt, ingested, pc, locals>>

\* _set_system_prompt (lines 206-208)
SetSystemPrompt ==
    /\ pc = "idle"
    /\ \E system_prompt_input \in Prompts : system_prompt' = system_prompt_input
    /\ UNCHANGED <<selected_filename, ingested, pc, locals>>

\* the generator is suspended at the yield of line 98: the event loop may
\* run another handler before the caller pulls again
Suspended == pc = "streaming" /\ Len(snapshots) >= 1

\* _selected_a_file while a call is in flight
SelectedAFileInFlight ==
    /\ Suspended
    /\ \E value \in ListedFiles(ingested) : selected_filename' = value
    /\ UNCHANGED <<system_prompt, ingested, pc, locals>>

\* _deselect_selected_file while a call is in flight
DeselectSelectedFileInFlight ==
    /\ Suspended
    /\ selected_filename' = None
    /\ UNCHANGED <<system_prompt, ingested, pc, locals>>

\* _set_system_prompt while a call is in flight
SetSystemPromptInFlight ==
    /\ Suspended
    /\ \E system_prompt_input \in Prompts : system_prompt' = system_prompt_input
    /\ UNCHANGED <<selected_filename, ingested, pc, locals>>

\* `ingested_document.doc_metadata and ...`: None and the empty mapping are
\* skipped
MetadataTruthy(meta) ==
    meta.present /\ (meta.file_name # None \/ meta.page_label # None)

\* lines 270-276: the documents left after the loop; a document whose
\* metadata has no "file_name" raises KeyError and ends the loop
RECURSIVE DeleteSelectedLoop(_, _, _)
DeleteSelectedLoop(docs, selected, kept) ==
    IF docs = <<>> THEN kept
    ELSE LET doc == Head(docs)
         IN  IF ~MetadataTruthy(doc.doc_metadata)
             THEN DeleteSelectedLoop(Tail(docs), selected, Append(kept, doc))
             ELSE IF doc.doc_metadata.file_name = None
             THEN kept \o docs
             ELSE IF doc.doc_metadata.file_name = selected
             THEN DeleteSelectedLoop(Tail(docs), selected, kept)
             ELSE DeleteSelectedLoop(Tail(docs), selected, Append(kept, doc))

\* _delete_selected_file (lines 267-282)
DeleteSelectedFile ==
    /\ pc = "idle"
    /\ ingested' = DeleteSelectedLoop(ingested, selected_filename, <<>>)
    /\ UNCHANGED <<selected_filename, system_prompt, pc, locals>>

\* _delete_all_files (lines 255-265)
DeleteAllFiles ==
    /\ pc = "idle"
    /\ ingested' = <<>>
    /\ UNCHANGED <<selected_filename, system_prompt, pc, locals>>

Next ==
    \/ ChatQueryFiles(Messages, ShortHistories)
    \/ ChatLlm(Messages, ShortHistories)
    \/ ChatSearchFiles(Messages, ShortHistories, FewChunkLists)
    \/ ChatUnknownMode(Messages, ShortHistories)
    \/ NextDelta
    \/ StreamFail
    \/ StreamEnd(FewChunkLists)
    \/ CallerStops
    \/ Discard
    \/ SelectedAFile
    \/ DeselectSelectedFile
    \/ SetSystemPrompt

Spec == Init /\ [][Next]_vars

(***************************************************************************)
(* The same machine with nothing ingested and nothing selected, called     *)
(* with every history of up to MaxTurns turns.                             *)
(***************************************************************************)
InitHistory ==
    /\ selected_filename = None
    /\ system_prompt \in Prompts
    /\ ingested = <<>>
    /\ pc = "idle"
    /\ LocalsCleared

NextHistory ==
    \/ ChatQueryFiles(Messages, Histories)
    \/ ChatLlm(Messages, Histories)
    \/ ChatSearchFiles(Messages, Histories, FewChunkLists)
    \/ ChatUnknownMode(Messages, Histories)
    \/ NextDelta
    \/ StreamFail
    \/ StreamEnd(FewChunkLists)
    \/ Discard
    \/ SetSystemPrompt

SpecHistory == InitHistory /\ [][NextHistory]_vars

(***************************************************************************)
(* The same machine with one session, one message and no history, and the  *)
(* collaborators returning every list of passages up to MaxChunks.         *)
(***************************************************************************)
InitSources ==
    /\ selected_filename = None
    /\ system_prompt = <<>>
    /\ ingested = <<>>
    /\ pc = "idle"
    /\ LocalsCleared

NextSources ==
    \/ ChatQueryFiles(OneMessage, NoHistory)
    \/ ChatLlm(OneMessage, NoHistory)
    \/ ChatSearchFiles(OneMessage, NoHistory, ChunkLists)
    \/ ChatUnknownMode(OneMessage, NoHistory)
    \/ NextDelta
    \/ StreamFail
    \/ StreamEnd(ChunkLists)
    \/ Discard

SpecSources == InitSources /\ [][NextSources]_vars

(***************************************************************************)
(* The same machine with nothing ingested and nothing selected, called     *)
(* with histories whose stored answers carry no, one or two citation       *)
(* blocks, and with the longest history.                                   *)
(***************************************************************************)
Hi == <<"H", "i">>

Hello == <<"H", "e", "l", "l", "o", "!">>

TellMeMore == <<"T", "e", "l", "l", " ", "m", "e", " ", "m", "o", "r", "e">>

APdf == <<"a", ".", "p", "d", "f">>

\* "Hello! Sources: \n\n\n1. a.pdf (page 1)"
HelloLoose ==
    Hello \o <<" ", "S", "o", "u", "r", "c", "e", "s", ":", " ",
               "\n", "\n", "\n", "1", ".", " ">> \o APdf
          \o <<" ", "(", "p", "a", "g", "e", " ", "1", ")">>

\* what yield_deltas leaves in the chat for the answer "Hello!" with one
\* passage of a.pdf, page 1
HelloStored ==
    FinalResponse(Hello, <<Chunk(Metadata(APdf, <<"1">>), <<"x">>)>>)

HelloTwice == HelloStored \o SOURCES_SEPARATOR \o <<"z">>

CompactHistories ==
    {<<>>,
     <<<<Hi, Hello>>>>,
     <<<<Hi, HelloLoose>>>>,
     <<<<Hi, HelloStored>>>>,
     <<<<Hi, HelloTwice>>>>,
     <<<<Hi, HelloStored>>, <<TellMeMore, HelloTwice>>>>,
     Hist(MaxTurns)}

CompactMessages == {TellMeMore}

InitCompact ==
    /\ selected_filename = None
    /\ system_prompt \in Prompts
    /\ ingested = <<>>
    /\ pc = "idle"
    /\ LocalsCleared

NextCompact ==
    \/ ChatQueryFiles(CompactMessages, CompactHistories)
    \/ ChatLlm(CompactMessages, CompactHistories)
    \/ ChatSearchFiles(CompactMessages, CompactHistories, FewChunkLists)
    \/ ChatUnknownMode(CompactMessages, CompactHistories)
    \/ NextDelta
    \/ StreamFail
    \/ StreamEnd(FewChunkLists)
    \/ Discard
    \/ SetSystemPrompt

SpecCompact == InitCompact /\ [][NextCompact]_vars

(***************************************************************************)
(* The same machine with one message and no history, the session handlers  *)
(* running also while a call is suspended, and the delete handlers.        *)
(***************************************************************************)
NextSession ==
    \/ ChatQueryFiles(OneMessage, NoHistory)
    \/ ChatLlm(OneMessage, NoHistory)
    \/ ChatSearchFiles(OneMessage, NoHistory, FewChunkLists)
    \/ ChatUnknownMode(OneMessage, NoHistory)
    \/ NextDelta
    \/ StreamFail
    \/ StreamEnd(FewChunkLists)
    \/ CallerStops
    \/ Discard
    \/ SelectedAFile
    \/ DeselectSelectedFile
    \/ SetSystemPrompt
    \/ SelectedAFileInFlight
    \/ DeselectSelectedFileInFlight
    \/ SetSystemPromptInFlight
    \/ DeleteSelectedFile
    \/ DeleteAllFiles

SpecSession == Init /\ [][NextSession]_vars

(***************************************************************************)
(* Vocabulary of the properties.                                           *)
(***************************************************************************)
GenerationMode == Dispatch(mode) \in {"query", "llm"}

\* the messages of a call without the leading system message and without
\* the new user message
HistoryPart(msgs) ==
    LET body == IF msgs # <<>> /\ msgs[1].role = "system"
                THEN Tail(msgs) ELSE msgs
    IN  SubSeq(body, 1, Len(body) - 1)

LastN(s, n) == SubSeq(s, Len(s) - n + 1, Len(s))

\* out lists, in first-occurrence order, the first element of inp for each
\* value of Key
IsStableDedup(out, inp, Key(_)) ==
    LET First(k) == CHOOSE i \in 1..Len(inp) :
                        /\ Key(inp[i]) = k
                        /\ \A j \in 1..(i - 1) : Key(inp[j]) # k
    IN  /\ Len(out) = Cardinality({Key(inp[i]) : i \in 1..Len(inp)})
        /\ \A i \in 1..Len(out) :
               /\ \E j \in 1..Len(inp) : Key(inp[j]) = Key(out[i])
               /\ out[i] = inp[First(Key(out[i]))]
        /\ \A i, j \in 1..Len(out) :
               i < j => First(Key(out[i])) < First(Key(out[j]))

PairKey(source) == <<source.file, source.page>>

TripleKey(source) == <<source.file, source.page, source.text>>

SourcesOf(chunks) == [i \in 1..Len(chunks) |-> Source(chunks[i])]

\* the passages the finished call curated: the retrieval response in
\* Search Files, the passages of the generation otherwise
CuratedInput == IF Dispatch(mode) = "search" THEN retrieved ELSE gen_sources

Curated ==
    /\ pc = "done"
    /\ \/ Dispatch(mode) = "search"
       \/ GenerationMode /\ gen_sources # <<>>

(***************************************************************************)
(* C1. History bound: when the turns of the history make more than 20      *)
(* messages, the history part of the messages passed to stream_chat is     *)
(* the 20 most recent of them, in their order.                             *)
(* The code keeps the 20 oldest (history_messages[:20]).                   *)
(***************************************************************************)
C1_HistoryKeepsMostRecent ==
    \A c \in 1..Len(stream_chat_calls) :
        Len(Chain(history)) > 20 =>
            HistoryPart(stream_chat_calls[c].messages) = LastN(Chain(history), 20)

(***************************************************************************)
(* C2. Source dedup: curate_sources returns one entry per distinct         *)
(* (file, page) pair, in order of first occurrence, with the text of the   *)
(* first passage of the pair.  Stated as written, the code refutes it:     *)
(* two passages of one page with different texts are both kept.            *)
(***************************************************************************)
C2_OnePerFilePage ==
    Curated => IsStableDedup(cur_sources, SourcesOf(CuratedInput), PairKey)

(***************************************************************************)
(* C2, amended.  curate_sources returns one entry per distinct             *)
(* (file, page, text) triple, in order of first occurrence.                *)
(***************************************************************************)
C2_OnePerFilePageText ==
    Curated => IsStableDedup(cur_sources, SourcesOf(CuratedInput), TripleKey)

C2_Witness ==
    /\ Curated
    /\ Len(CuratedInput) = 3
    /\ Len(cur_sources) = 2
    /\ \E i, j \in 1..Len(cur_sources) :
           /\ i # j
           /\ PairKey(cur_sources[i]) = PairKey(cur_sources[j])
Occurrences(s, sep) == Cardinality({i \in 1..Len(s) : OccursAt(s, sep, i)})

(***************************************************************************)
(* C3. Streaming monotonicity: in a generation mode every snapshot         *)
(* extends the previous one (or equals it), and the separator occurs in    *)
(* no snapshot but the last one of a finished call whose generation        *)
(* returned passages, where it occurs once.                                *)
(***************************************************************************)
C3_StreamingMonotone ==
    GenerationMode =>
        /\ \A i \in 1..(Len(snapshots) - 1) :
               IsPrefix(snapshots[i], snapshots[i + 1])
        /\ \A i \in 1..Len(snapshots) :
               Occurrences(snapshots[i], SOURCES_SEPARATOR) =
                   IF pc = "done" /\ i = Len(snapshots) /\ gen_sources # <<>>
                   THEN 1 ELSE 0

C3_Witness ==
    /\ GenerationMode
    /\ pc = "done"
    /\ Len(snapshots) = 3
    /\ snapshots[1] # <<>>
    /\ snapshots[1] # snapshots[2]
    /\ gen_sources # <<>>

(***************************************************************************)
(* C4. Mode isolation: a call in mode "LLM Chat (no context from files)"   *)
(* makes no call to retrieve_relevant and none to list_ingested, and one   *)
(* call to stream_chat, with use_context false and no context filter,      *)
(* whatever file is selected.                                              *)
(***************************************************************************)
C4_LlmChatIsolated ==
    mode = "LLM Chat (no context from files)" =>
        /\ retrieve_calls = <<>>
        /\ list_ingested_calls = 0
        /\ Len(stream_chat_calls) = 1
        /\ stream_chat_calls[1].use_context = FALSE
        /\ ~stream_chat_calls[1].context_filter.present

C4_Witness ==
    /\ mode = "LLM Chat (no context from files)"
    /\ selected_filename # None
    /\ pc = "done"

(***************************************************************************)
(* C5. Search Files: the call makes no call to stream_chat and one call    *)
(* to retrieve_relevant, with the message, limit 4 and prev_next_chunks 0; *)
(* it yields one snapshot, the curated sources numbered from 1 and joined  *)
(* by blank lines, without the separator; it yields nothing when the       *)
(* retrieval fails.                                                        *)
(***************************************************************************)
C5_SearchFiles ==
    mode = "Search Files" =>
        /\ stream_chat_calls = <<>>
        /\ retrieve_calls =
               <<[text |-> message, limit |-> 4, prev_next_chunks |-> 0]>>
        /\ pc = "failed" => snapshots = <<>>
        /\ pc = "done" =>
               /\ cur_sources = curate_sources(retrieved)
               /\ snapshots =
                      <<Join(<<"\n", "\n", "\n">>,
                             [i \in 1..Len(cur_sources) |->
                                  SearchEntry(i, cur_sources[i])])>>
               /\ ~Contains(snapshots[1], SOURCES_SEPARATOR)

C5_Witness ==
    /\ mode = "Search Files"
    /\ pc = "done"
    /\ Len(retrieved) = 3
    /\ Len(cur_sources) = 2
Min(a, b) == IF a < b THEN a ELSE b

\* the text a delta carries
Fragment(d) ==
    IF d.kind = "str" THEN d.delta
    ELSE IF d.delta = None THEN <<>> ELSE d.delta

\* the fragments of the first k deltas, concatenated
RECURSIVE Accumulated(_, _)
Accumulated(deltas, k) ==
    IF k = 0 THEN <<>>
    ELSE Accumulated(deltas, k - 1) \o Fragment(deltas[k])

\* the distinct (file, page) pairs of a list of sources, first seen first
RECURSIVE Citations(_)
Citations(srcs) ==
    IF srcs = <<>> THEN <<>>
    ELSE LET front == Citations(SubSeq(srcs, 1, Len(srcs) - 1))
             last == PairKey(srcs[Len(srcs)])
         IN  IF last \in Range(front) THEN front ELSE Append(front, last)

\* one line per citation, numbered by its position
RECURSIVE CitationLines(_, _)
CitationLines(cits, k) ==
    IF k = 0 THEN <<>>
    ELSE CitationLines(cits, k - 1)
             \o SourceLine(k, [file |-> cits[k][1], page |-> cits[k][2]])

(***************************************************************************)
(* C6. Query Files scope: the call invokes stream_chat once, with          *)
(* use_context true; with a file selected the filter holds the ids of      *)
(* exactly the ingested documents of that file name, with none selected    *)
(* no filter is passed.                                                    *)
(* The code raises before the call when a listed document has no metadata  *)
(* or no "file_name" while a file is selected.                             *)
(***************************************************************************)
C6_QueryFilesScope ==
    mode = "Query Files" =>
        /\ Len(stream_chat_calls) = 1
        /\ stream_chat_calls[1].use_context = TRUE
        /\ selected_filename = None =>
               ~stream_chat_calls[1].context_filter.present
        /\ selected_filename # None =>
               /\ stream_chat_calls[1].context_filter.present
               /\ Range(stream_chat_calls[1].context_filter.docs_ids) =
                      {ingested[i].doc_id :
                          i \in {j \in 1..Len(ingested) :
                                    /\ ingested[j].doc_metadata.present
                                    /\ ingested[j].doc_metadata.file_name
                                           = selected_filename}}

(***************************************************************************)
(* C7. Message shape: in every call to stream_chat the new user message    *)
(* is last; a non-empty system prompt is first, with role system, and      *)
(* comes on top of the (at most 20) history messages, so that at most 22   *)
(* messages are passed; with an empty prompt no message has role system.   *)
(***************************************************************************)
C7_MessageShape ==
    \A c \in 1..Len(stream_chat_calls) :
        LET m == stream_chat_calls[c].messages
            n == Len(m)
            kept == Min(2 * Len(history), 20)
        IN  /\ n >= 1
            /\ n <= 22
            /\ m[n] = [content |-> message, role |-> "user"]
            /\ system_prompt # <<>> =>
                   /\ m[1] = [content |-> system_prompt, role |-> "system"]
                   /\ n = kept + 2
            /\ system_prompt = <<>> => n = kept + 1
            /\ \A i \in 1..n :
                   m[i].role = "system" => i = 1 /\ system_prompt # <<>>

C7_Witness ==
    /\ Len(stream_chat_calls) = 1
    /\ Len(stream_chat_calls[1].messages) = 22
    /\ Len(history) > 10

(***************************************************************************)
(* C8. Citation block: when the generation returned passages, the last     *)
(* snapshot is the accumulated text, the separator, and one line per       *)
(* distinct (file, page) pair in first-seen order, each numbered by its    *)
(* position among the pairs.                                               *)
(* The code numbers the lines by the position among the curated sources,   *)
(* which repeat a pair when the texts differ, and tells pairs apart by     *)
(* the joined key "{file}-{page}".                                         *)
(***************************************************************************)
C8_CitationBlock ==
    (pc = "done" /\ GenerationMode /\ gen_sources # <<>>) =>
        LET n == Len(snapshots)
            cits == Citations(SourcesOf(gen_sources))
        IN  snapshots[n] =
                Accumulated(received, Len(received)) \o SOURCES_SEPARATOR
                    \o <<"\n", "\n", "\n">> \o CitationLines(cits, Len(cits))

(***************************************************************************)
(* C9. Unknown mode: a call whose mode is none of the three tags yields    *)
(* nothing, raises nothing and calls no collaborator.                      *)
(***************************************************************************)
C9_UnknownModeIsNoOp ==
    (pc # "idle" /\ mode \notin {MODES[1], MODES[2], MODES[3]}) =>
        /\ pc = "done"
        /\ error = "none"
        /\ snapshots = <<>>
        /\ stream_chat_calls = <<>>
        /\ retrieve_calls = <<>>
        /\ list_ingested_calls = 0

C9_Witness ==
    /\ pc = "done"
    /\ mode = "query files"
    /\ snapshots = <<>>

(***************************************************************************)
(* C10. Failure propagation: a call that failed has yielded exactly the    *)
(* snapshots of the deltas received before the failure (none for a failed  *)
(* stream_chat or retrieve_relevant call) and no citation block, has       *)
(* called the failing collaborator once and the other one never; and once  *)
(* failed it does nothing more.                                            *)
(***************************************************************************)
FailedShape ==
    /\ error # "none"
    /\ Len(snapshots) = Len(received)
    /\ \A i \in 1..Len(snapshots) : snapshots[i] = Accumulated(received, i)
    /\ gen_sources = <<>>
    /\ cur_sources = <<>>
    /\ error = "stream_chat" =>
           Len(stream_chat_calls) = 1 /\ retrieve_calls = <<>> /\ received = <<>>
    /\ error = "stream" =>
           Len(stream_chat_calls) = 1 /\ retrieve_calls = <<>>
    /\ error = "retrieve_relevant" =>
           Len(retrieve_calls) = 1 /\ stream_chat_calls = <<>> /\ snapshots = <<>>

C10_FailurePropagation ==
    [][/\ pc' = "failed" => FailedShape'
       /\ pc = "failed" => pc' = "idle"]_vars

C10_Witness ==
    /\ pc = "failed"
    /\ error = "stream"
    /\ Len(snapshots) = 1
    /\ snapshots[1] # <<>>

(***************************************************************************)
(* C11. Cancellation: when the caller stopped pulling before the stream    *)
(* was exhausted and the generator is closed, the chat operation has       *)
(* closed the stream of the collaborator.                                  *)
(* The code closes nothing: the stream stays open unless the runtime       *)
(* reclaims it.                                                            *)
(***************************************************************************)
C11_StreamClosedOnCancel ==
    pc = "closed" => stream_state = "closed"

\* the turns made again from compacted messages
Rebuild(msgs) ==
    [i \in 1..(Len(msgs) \div 2) |->
        <<msgs[2 * i - 1].content, msgs[2 * i].content>>]

(***************************************************************************)
(* C12. Stripping is idempotent: compacting again the turns rebuilt from   *)
(* the compacted history messages of a call gives the same messages.       *)
(***************************************************************************)
C12_CompactionIdempotent ==
    \A c \in 1..Len(stream_chat_calls) :
        LET hp == HistoryPart(stream_chat_calls[c].messages)
        IN  /\ Len(hp) % 2 = 0
            /\ build_history(Rebuild(hp)) = hp

C12_Witness ==
    /\ Len(stream_chat_calls) = 1
    /\ Len(history) = 2
    /\ Occurrences(history[2][2], SOURCES_SEPARATOR) = 2
    /\ HistoryPart(stream_chat_calls[1].messages)[4].content = Hello

(***************************************************************************)
(* C13. Compaction scenario, as written: with the history                  *)
(* [("Hi", "Hello! Sources: \n\n\n1. a.pdf (page 1)")], the message        *)
(* "Tell me more", mode Query Files, nothing selected and no system        *)
(* prompt, stream_chat gets [user "Hi", assistant "Hello!",                *)
(* user "Tell me more"].                                                   *)
(* The stored text of the scenario does not hold SOURCES_SEPARATOR         *)
(* ("\n\n Sources: \n"), so nothing is stripped from it.                   *)
(***************************************************************************)
ScenarioCall(stored) ==
    /\ history = <<<<Hi, stored>>>>
    /\ message = TellMeMore
    /\ mode = "Query Files"
    /\ selected_filename = None
    /\ system_prompt = <<>>
    /\ Len(stream_chat_calls) = 1

ScenarioMessages ==
    <<[content |-> Hi, role |-> "user"],
      [content |-> Hello, role |-> "assistant"],
      [content |-> TellMeMore, role |-> "user"]>>

C13_ScenarioAsWritten ==
    ScenarioCall(HelloLoose) => stream_chat_calls[1].messages = ScenarioMessages

(***************************************************************************)
(* C13, amended.  With the stored answer                                   *)
(* "Hello!\n\n Sources: \n\n\n\n1. a.pdf (page 1) \n\n", which is what     *)
(* the streamer leaves in the history, the messages are the three of the   *)
(* scenario: the citation block is stripped, no system message is added.   *)
(***************************************************************************)
C13_ScenarioWithSeparator ==
    /\ HelloStored =
           Hello \o <<"\n", "\n", " ", "S", "o", "u", "r", "c", "e", "s", ":",
                      " ", "\n", "\n", "\n", "\n", "1", ".", " ">> \o APdf
                 \o <<" ", "(", "p", "a", "g", "e", " ", "1", ")", " ",
                      "\n", "\n">>
    /\ ScenarioCall(HelloStored) =>
           stream_chat_calls[1].messages = ScenarioMessages

C13_Witness ==
    /\ ScenarioCall(HelloStored)
    /\ pc = "done"

(***************************************************************************)
(* C14. Session state is read once: no step taken while a call streams     *)
(* (a delta, or a select, deselect or set-prompt handler run while the     *)
(* call is suspended) changes the messages or the filter of that call;     *)
(* the call that starts next is built from the session as it then is.      *)
(***************************************************************************)
C14_SessionReadOnce ==
    [][/\ pc = "streaming" =>
              /\ all_messages' = all_messages
              /\ stream_chat_calls' = stream_chat_calls
       /\ (pc = "idle" /\ Len(stream_chat_calls') = 1) =>
              LET call == stream_chat_calls'[1]
              IN  /\ call.messages = all_messages'
                  /\ (call.messages[1].role = "system")
                         <=> (system_prompt # <<>>)
                  /\ system_prompt # <<>> =>
                         call.messages[1].content = system_prompt
                  /\ call.context_filter.present
                         <=> (mode' = "Query Files" /\ selected_filename # None)
      ]_vars

C14_Witness ==
    /\ Suspended
    /\ mode = "Query Files"
    /\ system_prompt # <<>>
    /\ stream_chat_calls[1].messages[1].role = "user"
    /\ selected_filename # None
    /\ ~stream_chat_calls[1].context_filter.present

(***************************************************************************)
(* C15. Deleting leaves the selection in place: a step that changes the    *)
(* ingested documents keeps the selected file; a selection is only         *)
(* dropped by the deselect handler; and a Query Files call made while the  *)
(* selected name matches no ingested document passes a filter over no      *)
(* document id, not an absent filter.                                      *)
(* The selection is a real file name (not the placeholder row), so the     *)
(* name stops matching only by a delete.                                   *)
(* The last part fails when a document without metadata (or without        *)
(* "file_name") is still listed: the call raises, as for C6.               *)
(***************************************************************************)
NoUnitNamed(name) ==
    \A i \in 1..Len(ingested) :
        ~(/\ ingested[i].doc_metadata.present
          /\ ingested[i].doc_metadata.file_name = name)

C15_DeleteKeepsSelection ==
    [][/\ ingested' # ingested => selected_filename' = selected_filename
       /\ (selected_filename # None /\ selected_filename' = None) =>
              UNCHANGED <<system_prompt, ingested, pc, locals>>
       /\ (/\ pc = "idle"
           /\ mode' = "Query Files"
           /\ selected_filename # None
           /\ selected_filename # FILE_NAME_MISSING
           /\ NoUnitNamed(selected_filename)) =>
              /\ Len(stream_chat_calls') = 1
              /\ stream_chat_calls'[1].context_filter.present
              /\ stream_chat_calls'[1].context_filter.docs_ids = <<>>
      ]_vars

(***************************************************************************)
(* C16. Snapshot content: in a generation mode the k-th snapshot is the    *)
(* concatenation of the fragments of the first k deltas (a str delta       *)
(* gives itself, a ChatResponse its delta or nothing when that is None);   *)
(* when the generation returned no passages the last snapshot is the       *)
(* concatenation of all fragments, without separator.                      *)
(***************************************************************************)
C16_SnapshotContent ==
    GenerationMode =>
        /\ Len(snapshots) >= Len(received)
        /\ \A k \in 1..Len(received) :
               snapshots[k] = Accumulated(received, k)
        /\ (pc = "done" /\ gen_sources = <<>>) =>
               /\ Len(snapshots) = Len(received) + 1
               /\ snapshots[Len(snapshots)] =
                      Accumulated(received, Len(received))
               /\ ~Contains(snapshots[Len(snapshots)], SOURCES_SEPARATOR)

C16_Witness ==
    /\ GenerationMode
    /\ pc = "done"
    /\ gen_sources = <<>>
    /\ Len(received) = 2
    /\ received[1].kind = "str"
    /\ received[2].kind = "ChatResponse"
    /\ received[2].delta # None
    /\ Len(snapshots) = 3

====
